---- MODULE Spec2Model ----
(***************************************************************************)
(* Model of the brain.com.ua product parser: the three scripts             *)
(*   src/modules/1_get_data.py      (Playwright,     suffix _pw)           *)
(*   src/modules/1_get_listings.py  (Selenium,       suffix _se)           *)
(*   src/modules/1_parse_data.py    (requests + bs4, suffix _bs)           *)
(* and the Product table of src/braincom_project/parser_app/models.py.     *)
(*                                                                         *)
(* A text is a sequence of one-character strings; the Python value None is *)
(* the one-element sequence <<"None">>, which is no text because "None" is *)
(* not a character.  A call returns [exc, val]: exc = "none" when the call *)
(* returns val, otherwise the name of the exception it lets through.       *)
(***************************************************************************)
EXTENDS Integers, Sequences, FiniteSets, TLC

VARIABLES
    variant,      \* which script runs: "pw", "se" or "bs"
    pc,           \* position of the run inside main()
    page,         \* the page snapshot the extractors query
    product_url,  \* the link main() holds (search result href, or the fixed url)
    product,      \* the dict parse_product_page / parse builds, key by key
    store,        \* rows of the Product table
    nextId,       \* next primary key of the Product table
    session,      \* browser / driver handle: "none", "open", "closed"
    raised,       \* exception main() lets through to its caller, or "none"
    log,          \* what the run logged (level and message tag), in order
    runs,         \* number of runs of main() started
    saves         \* update_or_create calls made so far, in order

vars == <<variant, pc, page, product_url, product, store, nextId, session,
          raised, log, runs, saves>>

-----------------------------------------------------------------------------
(* Python values and str methods *)

None == <<"None">>

NBSP == "nbsp"
TAB == "tab"
Whitespace == {" ", NBSP, TAB}

Ret(v) == [exc |-> "none", val |-> v]
Raise(e) == [exc |-> e, val |-> None]

\* Python truthiness of an optional text: None and '' are falsy.
Truthy(s) == s # None /\ s # <<>>

RECURSIVE lstrip(_)
lstrip(s) ==
    IF s = <<>> THEN <<>>
    ELSE IF Head(s) \in Whitespace THEN lstrip(Tail(s)) ELSE s

RECURSIVE rstrip(_)
rstrip(s) ==
    IF s = <<>> THEN <<>>
    ELSE IF s[Len(s)] \in Whitespace THEN rstrip(SubSeq(s, 1, Len(s) - 1)) ELSE s

\* str.strip(): leading and trailing whitespace (any Unicode whitespace) removed.
strip(s) == rstrip(lstrip(s))

\* str.replace(old, new) for a one-character old and a text new.
RECURSIVE replace(_, _, _)
replace(s, old, new) ==
    IF s = <<>> THEN <<>>
    ELSE (IF Head(s) = old THEN new ELSE <<Head(s)>>) \o replace(Tail(s), old, new)

\* str.split(sep) for a one-character sep: always at least one part.
RECURSIVE split(_, _)
split(s, sep) ==
    IF \A i \in 1..Len(s) : s[i] # sep THEN <<s>>
    ELSE LET i == CHOOSE k \in 1..Len(s) :
                      s[k] = sep /\ \A j \in 1..(k - 1) : s[j] # sep
         IN  <<SubSeq(s, 1, i - 1)>> \o split(SubSeq(s, i + 1, Len(s)), sep)

\* sep.join(parts)
RECURSIVE join(_, _)
join(parts, sep) ==
    IF parts = <<>> THEN <<>>
    ELSE IF Len(parts) = 1 THEN parts[1]
    ELSE parts[1] \o sep \o join(Tail(parts), sep)

-----------------------------------------------------------------------------
(* Text lookup primitives.  A node is what the page yields for one locator: *)
(*   kind  "absent"  no element matches (the wait times out / find is None) *)
(*         "stale"   an element matches but reading it fails                *)
(*         "found"   an element matches and can be read                     *)
(*   text  the element's rendered text  (Selenium element.text)             *)
(*   inner the element's innerText      (Playwright inner_text, JS          *)
(*         innerText; for bs4 the element's .text)                          *)

safe_find_by_xpath_pw(node) ==
    IF node.kind = "absent" THEN Ret(None)          \* wait_for: TimeoutError
    ELSE IF node.kind = "stale" THEN Ret(None)      \* inner_text: Exception
    ELSE IF node.inner # <<>> THEN Ret(strip(node.inner))
    ELSE Ret(None)

get_by_label_pw(node) ==
    IF node.kind = "absent" THEN Ret(None)
    ELSE IF node.kind = "stale" THEN Ret(None)
    ELSE IF node.inner # <<>> THEN Ret(strip(node.inner))
    ELSE Ret(None)

safe_find_by_xpath_se(node) ==
    IF node.kind = "absent" THEN Ret(None)          \* until: TimeoutException
    ELSE IF node.kind = "stale" THEN Raise("StaleElementReferenceException")
    ELSE IF strip(node.text) # <<>> THEN Ret(strip(node.text))
    ELSE IF node.inner # <<>> THEN Ret(strip(node.inner))
    ELSE Ret(None)

get_by_label_se(node) ==
    IF node.kind = "absent" THEN Ret(None)
    ELSE IF node.kind = "stale" THEN Raise("StaleElementReferenceException")
    ELSE IF strip(node.text) # <<>> THEN Ret(strip(node.text))
    ELSE IF node.inner # <<>> THEN Ret(strip(node.inner))
    ELSE Ret(None)

\* safe(find_func): find_func() is None when nothing matches, and None.text
\* is the AttributeError the function catches.
safe_bs(node) ==
    IF node.kind = "absent" THEN Ret(None)
    ELSE Ret(strip(node.inner))

get_by_label_bs(node) ==
    IF node.kind = "absent" THEN Ret(None)
    ELSE Ret(strip(node.inner))

-----------------------------------------------------------------------------
(* Field extractors.  A page is                                             *)
(*   nodes   locator -> node, for the five basic locators and the six       *)
(*           label-adjacent lookups                                         *)
(*   button  the "show all specifications" control: "ok", "absent" (no      *)
(*           such element), "stuck" (present, cannot be clicked) or         *)
(*           "expanded" (it has been clicked)                               *)
(*   imgs    the img.br-main-img nodes in document order                    *)
(*   cats    the div.br-pr-chr-item category blocks in document order       *)
(* Python evaluates the lookups in source order and the first exception     *)
(* that is not caught ends the extractor.                                   *)

BasicKeys == {"title", "regular_price", "discount_price", "product_code",
              "review_count"}
DetailKeys == {"vendor", "color", "memory_volume", "series", "screen_diagonal",
               "screen_resolution"}
Locators == BasicKeys \cup DetailKeys

RECURSIVE FirstExc(_)
FirstExc(results) ==
    IF results = <<>> THEN "none"
    ELSE IF Head(results).exc # "none" THEN Head(results).exc
    ELSE FirstExc(Tail(results))

\* the price text passed on as it was read
price_as_read(text) == IF Truthy(text) THEN text ELSE None

\* regular_price.replace(' ', '') if regular_price else None
price(text) == IF Truthy(text) THEN replace(text, " ", <<>>) ELSE None

basic_info(rp, dp, t, code, rc) ==
    IF FirstExc(<<rp, dp, t, code, rc>>) # "none"
    THEN Raise(FirstExc(<<rp, dp, t, code, rc>>))
    ELSE Ret([title |-> t.val,
              regular_price |-> price(rp.val),
              discount_price |-> price(dp.val),
              product_code |-> code.val,
              review_count |-> rc.val])

extract_basic_info_pw(p) ==
    basic_info(safe_find_by_xpath_pw(p.nodes["regular_price"]),
               safe_find_by_xpath_pw(p.nodes["discount_price"]),
               safe_find_by_xpath_pw(p.nodes["title"]),
               safe_find_by_xpath_pw(p.nodes["product_code"]),
               safe_find_by_xpath_pw(p.nodes["review_count"]))

extract_basic_info_se(p) ==
    basic_info(safe_find_by_xpath_se(p.nodes["regular_price"]),
               safe_find_by_xpath_se(p.nodes["discount_price"]),
               safe_find_by_xpath_se(p.nodes["title"]),
               safe_find_by_xpath_se(p.nodes["product_code"]),
               safe_find_by_xpath_se(p.nodes["review_count"]))

extract_basic_info_bs(p) ==
    basic_info(safe_bs(p.nodes["regular_price"]),
               safe_bs(p.nodes["discount_price"]),
               safe_bs(p.nodes["title"]),
               safe_bs(p.nodes["product_code"]),
               safe_bs(p.nodes["review_count"]))

details(v, c, m, s, d, r) ==
    IF FirstExc(<<v, c, m, s, d, r>>) # "none"
    THEN Raise(FirstExc(<<v, c, m, s, d, r>>))
    ELSE Ret([vendor |-> v.val, color |-> c.val, memory_volume |-> m.val,
              series |-> s.val, screen_diagonal |-> d.val,
              screen_resolution |-> r.val])

\* The locator is lazy: scroll_into_view_if_needed() waits for the element and
\* times out when there is none; click() times out when it cannot be clicked.
\* Neither call is inside a try.
extract_product_details_pw(p) ==
    IF p.button = "absent" THEN Raise("TimeoutError")
    ELSE IF p.button = "stuck" THEN Raise("TimeoutError")
    ELSE details(get_by_label_pw(p.nodes["vendor"]),
                 get_by_label_pw(p.nodes["color"]),
                 get_by_label_pw(p.nodes["memory_volume"]),
                 get_by_label_pw(p.nodes["series"]),
                 get_by_label_pw(p.nodes["screen_diagonal"]),
                 get_by_label_pw(p.nodes["screen_resolution"]))

\* driver.find_element raises when there is no such element, click() when the
\* element cannot be clicked.  Neither call is inside a try.
extract_product_details_se(p) ==
    IF p.button = "absent" THEN Raise("NoSuchElementException")
    ELSE IF p.button = "stuck" THEN Raise("ElementNotInteractableException")
    ELSE details(get_by_label_se(p.nodes["vendor"]),
                 get_by_label_se(p.nodes["color"]),
                 get_by_label_se(p.nodes["memory_volume"]),
                 get_by_label_se(p.nodes["series"]),
                 get_by_label_se(p.nodes["screen_diagonal"]),
                 get_by_label_se(p.nodes["screen_resolution"]))

\* The static-markup script has no control to activate.
extract_product_details_bs(p) ==
    details(get_by_label_bs(p.nodes["vendor"]),
            get_by_label_bs(p.nodes["color"]),
            get_by_label_bs(p.nodes["memory_volume"]),
            get_by_label_bs(p.nodes["series"]),
            get_by_label_bs(p.nodes["screen_diagonal"]),
            get_by_label_bs(p.nodes["screen_resolution"]))

(* Photos.  An img is [src, fault]: src is None when the attribute is       *)
(* missing; fault is "none", or "timeout" / "stale" when reading the        *)
(* element fails with a timeout / with another driver error.                *)
\* every src read is appended, missing or empty ones too
RECURSIVE collect_photos_all(_, _)
collect_photos_all(imgs, acc) ==
    IF imgs = <<>> \/ acc.exc # "none" THEN acc
    ELSE IF Head(imgs).fault # "none" THEN [acc EXCEPT !.exc = Head(imgs).fault]
    ELSE collect_photos_all(Tail(imgs),
             [acc EXCEPT !.photos = Append(@, Head(imgs).src)])

RECURSIVE collect_photos(_, _)
collect_photos(imgs, acc) ==
    IF imgs = <<>> \/ acc.exc # "none" THEN acc
    ELSE IF Head(imgs).fault # "none" THEN [acc EXCEPT !.exc = Head(imgs).fault]
    ELSE collect_photos(Tail(imgs),
             IF Truthy(Head(imgs).src)
             THEN [acc EXCEPT !.photos = Append(@, Head(imgs).src)]
             ELSE acc)

\* except Exception: the photos appended so far are returned.
extract_photos_pw(p) ==
    Ret(collect_photos(p.imgs, [photos |-> <<>>, exc |-> "none"]).photos)

\* except (NoSuchElementException, TimeoutException)
extract_photos_se(p) ==
    LET r == collect_photos(p.imgs, [photos |-> <<>>, exc |-> "none"])
    IN  IF r.exc \in {"none", "timeout"} THEN Ret(r.photos)
        ELSE Raise("StaleElementReferenceException")

RECURSIVE photos_bs(_)
photos_bs(imgs) ==
    IF imgs = <<>> THEN <<>>
    ELSE (IF Truthy(Head(imgs).src) THEN <<Head(imgs).src>> ELSE <<>>)
         \o photos_bs(Tail(imgs))

extract_photos_bs(p) == Ret(photos_bs(p.imgs))

-----------------------------------------------------------------------------
(* Specification table.  A category block is [div, rows]: div says whether *)
(* the block has an inner container, rows are the container's child rows in *)
(* document order (none without container).  A row is [spans, fault,        *)
(* nested]: the texts of its direct-child spans; fault is "none", or        *)
(* "timeout" / "stale" when enumerating or reading the row fails with a     *)
(* timeout / with another driver error (static markup has no faults);       *)
(* nested are the div elements that are children of the row, each a row     *)
(* again.                                                                   *)

\* ', '.join(x.strip() for x in value.replace('\xa0', ' ').split(',') if x.strip())
nonempty(x) == strip(x) # <<>>

RECURSIVE strip_each(_)
strip_each(parts) ==
    IF parts = <<>> THEN <<>>
    ELSE <<strip(Head(parts))>> \o strip_each(Tail(parts))

\* the join without the "if x.strip()" filter
cleaned_value_keep_empty(value) ==
    join(strip_each(split(replace(value, NBSP, <<" ">>), ",")), <<",", " ">>)

cleaned_value(value) ==
    join(strip_each(SelectSeq(split(replace(value, NBSP, <<" ">>), ","), nonempty)),
         <<",", " ">>)

\* the loop body without its elif branch
store_row_two_only(specifications, spans) ==
    IF Len(spans) = 2
    THEN (strip(spans[1]) :> cleaned_value(strip(spans[2]))) @@ specifications
    ELSE specifications

\* the loop body with "else" for "elif len(spans) == 1"
store_row_else(specifications, spans) ==
    IF Len(spans) = 2
    THEN (strip(spans[1]) :> cleaned_value(strip(spans[2]))) @@ specifications
    ELSE IF Len(spans) >= 1
    THEN (strip(spans[1]) :> None) @@ specifications
    ELSE specifications

\* the loop body that keeps the entry a label already has
store_row_keep_first(specifications, spans) ==
    IF Len(spans) = 2
    THEN specifications @@ (strip(spans[1]) :> cleaned_value(strip(spans[2])))
    ELSE IF Len(spans) = 1
    THEN specifications @@ (strip(spans[1]) :> None)
    ELSE specifications

\* The body of "for item in items": the branch on len(spans).
store_row(specifications, spans) ==
    IF Len(spans) = 2
    THEN (strip(spans[1]) :> cleaned_value(strip(spans[2]))) @@ specifications
    ELSE IF Len(spans) = 1
    THEN (strip(spans[1]) :> None) @@ specifications
    ELSE specifications

\* The nested loops, over the items in the order the loops visit them; the
\* first fault ends the enumeration with the entries stored so far.
RECURSIVE walk_items(_, _)
walk_items(items, acc) ==
    IF items = <<>> \/ acc.exc # "none" THEN acc
    ELSE IF Head(items).fault # "none" THEN [acc EXCEPT !.exc = Head(items).fault]
    ELSE walk_items(Tail(items),
                    [acc EXCEPT !.specs = store_row(@, Head(items).spans)])

\* .//div/div selects every div whose parent is a div below the block, in
\* document order: the rows of the container and, after each row, the divs
\* nested in it at any depth.
RECURSIVE div_div(_)
div_div(rows) ==
    IF rows = <<>> THEN <<>>
    ELSE <<Head(rows)>> \o div_div(Head(rows).nested) \o div_div(Tail(rows))

\* category.locator("xpath=.//div/div").all()
items_pw(category) ==
    IF ~category.div THEN <<>> ELSE div_div(category.rows)

\* category.find_elements(By.XPATH, ".//div/div")
items_se(category) ==
    IF ~category.div THEN <<>> ELSE div_div(category.rows)

RECURSIVE no_fault(_)
no_fault(rows) ==
    IF rows = <<>> THEN <<>>
    ELSE <<[Head(rows) EXCEPT !.fault = "none"]>> \o no_fault(Tail(rows))

\* category.find('div') and category_div.find_all('div', recursive=False);
\* a block without inner container is skipped.
items_bs(category) ==
    IF ~category.div THEN <<>> ELSE no_fault(category.rows)

RECURSIVE all_items_pw(_)
all_items_pw(cats) ==
    IF cats = <<>> THEN <<>> ELSE items_pw(Head(cats)) \o all_items_pw(Tail(cats))

RECURSIVE all_items_se(_)
all_items_se(cats) ==
    IF cats = <<>> THEN <<>> ELSE items_se(Head(cats)) \o all_items_se(Tail(cats))

RECURSIVE all_items_bs(_)
all_items_bs(cats) ==
    IF cats = <<>> THEN <<>> ELSE items_bs(Head(cats)) \o all_items_bs(Tail(cats))

\* except Exception: logs a warning and returns the dict as it is.
extract_specifications_pw(p) ==
    Ret(walk_items(all_items_pw(p.cats), [specs |-> <<>>, exc |-> "none"]).specs)

\* except (NoSuchElementException, TimeoutException): other driver errors
\* leave the function.
extract_specifications_se(p) ==
    LET r == walk_items(all_items_se(p.cats), [specs |-> <<>>, exc |-> "none"])
    IN  IF r.exc \in {"none", "timeout"} THEN Ret(r.specs)
        ELSE Raise("StaleElementReferenceException")

\* no try: nothing in the static parse raises.
extract_specifications_bs(p) ==
    Ret(walk_items(all_items_bs(p.cats), [specs |-> <<>>, exc |-> "none"]).specs)

-----------------------------------------------------------------------------
(* Persistence.  A row of the Product table is [id, link, fields]; fields   *)
(* are the 13 columns other than link.  product_code and link are           *)
(* unique=True, null=True: two rows may both hold NULL, no two rows hold    *)
(* the same non-NULL value.                                                 *)

FieldKeys == Locators \cup {"photos", "specifications"}

unique_violation(rows, id, fields) ==
    /\ fields.product_code # None
    /\ \E r \in rows : r.id # id /\ r.fields.product_code = fields.product_code

Failed(e, rows) == [exc |-> e, rows |-> rows, created |-> FALSE, row |-> None]

Saved(rows, row, created) ==
    [exc |-> "none", rows |-> rows \cup {row}, created |-> created, row |-> row]

\* update_or_create as a merge: a default of None keeps the stored value.
update_or_create_merge(rows, id, link, defaults) ==
    LET matches == {r \in rows : r.link = link}
    IN  IF matches = {}
        THEN IF unique_violation(rows, id, defaults)
             THEN Failed("IntegrityError", rows)
             ELSE Saved(rows, [id |-> id, link |-> link, fields |-> defaults], TRUE)
        ELSE LET old == CHOOSE r \in matches : TRUE
                 kept == [k \in DOMAIN defaults |->
                             IF k \in Locators /\ defaults[k] = None THEN old.fields[k]
                             ELSE defaults[k]]
             IN  IF unique_violation(rows, old.id, kept)
                 THEN Failed("IntegrityError", rows)
                 ELSE Saved(rows \ {old},
                            [id |-> old.id, link |-> link, fields |-> kept], FALSE)

\* update_or_create as a plain create: the link is never looked up.
update_or_create_insert(rows, id, link, defaults) ==
    Saved(rows, [id |-> id, link |-> link, fields |-> defaults], TRUE)

\* update_or_create on a table without the unique index on product_code
update_or_create_no_index(rows, id, link, defaults) ==
    LET matches == {r \in rows : r.link = link}
    IN  IF matches = {}
        THEN Saved(rows, [id |-> id, link |-> link, fields |-> defaults], TRUE)
        ELSE LET old == CHOOSE r \in matches : TRUE
             IN  Saved(rows \ {old},
                       [id |-> old.id, link |-> link, fields |-> defaults], FALSE)

\* Product.objects.update_or_create(link=link, defaults=defaults):
\* the row matching link gets every default assigned and is saved; without a
\* match a row is created from link and defaults.  A statement that violates
\* a unique constraint raises IntegrityError and changes nothing.  The
\* result carries the table after the call and the row it returns.
update_or_create(rows, id, link, defaults) ==
    LET matches == {r \in rows : r.link = link}
    IN  IF matches = {}
        THEN IF unique_violation(rows, id, defaults)
             THEN Failed("IntegrityError", rows)
             ELSE Saved(rows, [id |-> id, link |-> link, fields |-> defaults], TRUE)
        ELSE LET old == CHOOSE r \in matches : TRUE
             IN  IF unique_violation(rows, old.id, defaults)
                 THEN Failed("IntegrityError", rows)
                 ELSE Saved(rows \ {old},
                            [id |-> old.id, link |-> link, fields |-> defaults], FALSE)

\* defaults built with data['key']: a missing key is a KeyError.
save_product_pw(rows, id, link, data) ==
    IF FieldKeys \subseteq DOMAIN data
    THEN update_or_create(rows, id, link, [k \in FieldKeys |-> data[k]])
    ELSE Failed("KeyError", rows)

save_product_se(rows, id, link, data) ==
    IF FieldKeys \subseteq DOMAIN data
    THEN update_or_create(rows, id, link, [k \in FieldKeys |-> data[k]])
    ELSE Failed("KeyError", rows)

\* defaults built with data.get('key'), photos and specifications defaulting
\* to [] and {}.
save_product_bs(rows, id, link, data) ==
    update_or_create(rows, id, link,
        [k \in FieldKeys |->
            IF k \in DOMAIN data THEN data[k]
            ELSE IF k \in {"photos", "specifications"} THEN <<>>
            ELSE None])

-----------------------------------------------------------------------------
(* Inputs: the pages the site may serve and the links a search may yield.   *)

MaxRuns == 2
MaxPriceLen == 3
MaxValueLen == 4
MaxRows == 3

\* the texts over an alphabet, up to a length
Texts(alphabet, n) == UNION {[1..k -> alphabet] : k \in 0..n}

Found(t) == [kind |-> "found", text |-> t, inner |-> t]
Hidden(t) == [kind |-> "found", text |-> <<>>, inner |-> t]
Absent == [kind |-> "absent", text |-> <<>>, inner |-> <<>>]
Stale == [kind |-> "stale", text |-> <<>>, inner |-> <<>>]

Img(src) == [src |-> src, fault |-> "none"]
Row(spans) == [spans |-> spans, fault |-> "none", nested |-> <<>>]
Nest(spans, nested) == [spans |-> spans, fault |-> "none", nested |-> nested]
BadRow(fault) == [spans |-> <<>>, fault |-> fault, nested |-> <<>>]
Cat(rows) == [div |-> TRUE, rows |-> rows]
NoDiv == [div |-> FALSE, rows |-> <<>>]

NoPage == [nodes |-> [l \in Locators |-> Absent], button |-> "absent",
           imgs |-> <<>>, cats |-> <<>>]

BasePage ==
    [nodes |-> [title |-> Found(<<"T">>),
                regular_price |-> Found(<<"1", " ", "5">>),
                discount_price |-> Found(<<" ", "9">>),
                product_code |-> Found(<<"C">>),
                review_count |-> Hidden(<<"3">>),
                vendor |-> Found(<<"A">>),
                color |-> Found(<<"B">>),
                memory_volume |-> Found(<<"M">>),
                series |-> Found(<<"S">>),
                screen_diagonal |-> Found(<<"6">>),
                screen_resolution |-> Found(<<"R">>)],
     button |-> "ok",
     imgs |-> <<Img(<<"a">>), Img(None), Img(<<"b">>)>>,
     cats |-> <<Cat(<<Row(<<<<"k">>, <<"v", NBSP, ",">>>>), Row(<<<<"g">>>>)>>)>>]

\* another product
OtherPage ==
    [BasePage EXCEPT !.nodes["title"] = Found(<<"U">>),
                     !.nodes["product_code"] = Found(<<"D">>),
                     !.imgs = <<>>]

\* nothing but the control on the page
BarePage == [NoPage EXCEPT !.button = "ok"]

Pages ==
    {BasePage, OtherPage, BarePage,
     [BasePage EXCEPT !.button = "absent"],
     [BasePage EXCEPT !.button = "stuck"],
     [BasePage EXCEPT !.nodes["title"] = Stale],
     [BasePage EXCEPT !.nodes["vendor"] = Stale, !.nodes["discount_price"] = Absent],
     [BasePage EXCEPT !.cats = <<Cat(<<Row(<<<<"k">>, <<"v">>>>), BadRow("stale")>>)>>],
     [BasePage EXCEPT !.cats = <<Cat(<<Row(<<<<"k">>, <<"v">>>>), BadRow("timeout")>>)>>]}

RECURSIVE NoFaults(_)
NoFaults(elems) ==
    IF elems = <<>> THEN TRUE
    ELSE Head(elems).fault = "none" /\ NoFaults(Tail(elems))

RECURSIVE StaticCats(_)
StaticCats(cats) ==
    IF cats = <<>> THEN TRUE
    ELSE NoFaults(Head(cats).rows) /\ StaticCats(Tail(cats))

\* A page of parsed markup: every element that is there can be read.
Static(p) ==
    /\ \A l \in Locators : p.nodes[l].kind # "stale"
    /\ NoFaults(p.imgs)
    /\ StaticCats(p.cats)

L1 == <<"u", "1">>
L2 == <<"u", "2">>
Hrefs == {None, <<>>, L1, L2}

Browser(v) == v \in {"pw", "se"}

-----------------------------------------------------------------------------
(* main() *)

Init ==
    /\ variant = "bs"
    /\ pc = "idle"
    /\ page = NoPage
    /\ product_url = None
    /\ product = <<>>
    /\ store = {}
    /\ nextId = 1
    /\ session = "none"
    /\ raised = "none"
    /\ log = <<>>
    /\ runs = 0
    /\ saves = <<>>

\* The script is started.  The browser scripts acquire their session and set
\* it up before the try: the Selenium script maximizes the window outside
\* the try, so a WebDriverException there leaves main with the driver still
\* running; the Playwright script makes context and page inside the with
\* block, whose exit stops Playwright and with it the browser when they
\* raise.  The static script fixes its url.
StartRun(v) ==
    /\ pc \in {"idle", "done"}
    /\ runs < MaxRuns
    /\ variant' = v
    /\ runs' = runs + 1
    /\ product_url' = IF Browser(v) THEN None ELSE L1
    /\ page' = NoPage
    /\ product' = <<>>
    /\ log' = <<"INFO: SCRIPT STARTED">>
    /\ \/ /\ pc' = IF Browser(v) THEN "search" ELSE "fetch"
          /\ session' = IF Browser(v) THEN "open" ELSE "none"
          /\ raised' = "none"
       \/ /\ v = "se"
          /\ pc' = "done"
          /\ session' = "open"
          /\ raised' = "WebDriverException"
       \/ /\ v = "pw"
          /\ pc' = "done"
          /\ session' = "closed"
          /\ raised' = "Error"
    /\ UNCHANGED <<store, nextId, saves>>

\* product_url = search_product(...), then "if product_url:".  The waits of
\* search_product raise on timeout; otherwise it returns the first result's
\* href and the browser is on the product page.
SearchProduct ==
    /\ pc = "search"
    /\ \/ /\ raised' = IF variant = "pw" THEN "TimeoutError" ELSE "TimeoutException"
          /\ pc' = "except"
          /\ UNCHANGED <<product_url, page, log>>
       \/ \E href \in Hrefs :
             /\ product_url' = href
             /\ IF Truthy(href)
                THEN /\ \E p \in Pages : page' = p
                     /\ pc' = "basic"
                     /\ log' = log
                ELSE /\ page' = page
                     /\ pc' = "finally"
                     /\ log' = Append(log, "ERROR: No product URL found from search results")
             /\ raised' = raised
    /\ UNCHANGED <<variant, product, store, nextId, session, runs, saves>>

\* fetch_page that notes the failure and hands back an empty document
FetchPage_goes_on ==
    /\ pc = "fetch"
    /\ \/ /\ \E e \in {"ConnectionError", "HTTPError"} : raised' = e
          /\ pc' = "basic"
          /\ page' = page
       \/ /\ \E p \in {q \in Pages : Static(q)} : page' = p
          /\ pc' = "basic"
          /\ raised' = raised
    /\ UNCHANGED <<variant, product_url, product, store, nextId, session, log,
                   runs, saves>>

\* soup = fetch_page(url, headers): requests.get and raise_for_status raise.
FetchPage ==
    /\ pc = "fetch"
    /\ \/ /\ \E e \in {"ConnectionError", "HTTPError"} : raised' = e
          /\ pc' = "except"
          /\ page' = page
       \/ /\ \E p \in {q \in Pages : Static(q)} : page' = p
          /\ pc' = "basic"
          /\ raised' = raised
    /\ UNCHANGED <<variant, product_url, product, store, nextId, session, log,
                   runs, saves>>

\* One step of parse_product_page / parse: on return the result is merged
\* into product, an exception goes to main's except clause; after is the
\* page as the step leaves it.
Step(here, r, merged, next, after) ==
    /\ pc = here
    /\ IF r.exc = "none"
       THEN /\ product' = merged
            /\ pc' = next
            /\ raised' = raised
       ELSE /\ product' = product
            /\ pc' = "except"
            /\ raised' = r.exc
    /\ log' = Append(log, "INFO: " \o here)
    /\ page' = after
    /\ UNCHANGED <<variant, product_url, store, nextId, session, runs, saves>>

\* all_specs_button.click(): the control that could be clicked has been
\* clicked and the full table is shown.
Expanded(p) == IF p.button = "ok" THEN [p EXCEPT !.button = "expanded"] ELSE p

\* extract_basic_info that activates the control before it reads the fields
ExtractBasicInfo_control_first ==
    LET r == CASE variant = "pw" -> extract_basic_info_pw(page)
               [] variant = "se" -> extract_basic_info_se(page)
               [] variant = "bs" -> extract_basic_info_bs(page)
    IN  Step("basic", r, r.val @@ product, "details",
             IF Browser(variant) THEN Expanded(page) ELSE page)

ExtractBasicInfo ==
    LET r == CASE variant = "pw" -> extract_basic_info_pw(page)
               [] variant = "se" -> extract_basic_info_se(page)
               [] variant = "bs" -> extract_basic_info_bs(page)
    IN  Step("basic", r, r.val @@ product, "details", page)

ExtractProductDetails ==
    LET r == CASE variant = "pw" -> extract_product_details_pw(page)
               [] variant = "se" -> extract_product_details_se(page)
               [] variant = "bs" -> extract_product_details_bs(page)
    IN  Step("details", r, r.val @@ product, "photos",
             IF Browser(variant) THEN Expanded(page) ELSE page)

ExtractPhotos ==
    LET r == CASE variant = "pw" -> extract_photos_pw(page)
               [] variant = "se" -> extract_photos_se(page)
               [] variant = "bs" -> extract_photos_bs(page)
    IN  Step("photos", r, ("photos" :> r.val) @@ product, "specs", page)

ExtractSpecifications ==
    LET r == CASE variant = "pw" -> extract_specifications_pw(page)
               [] variant = "se" -> extract_specifications_se(page)
               [] variant = "bs" -> extract_specifications_bs(page)
    IN  Step("specs", r, ("specifications" :> r.val) @@ product, "save", page)

\* save_product(product_url, data), then "SCRIPT COMPLETED SUCCESSFULLY".
SaveProduct ==
    /\ pc = "save"
    /\ LET r == CASE variant = "pw" -> save_product_pw(store, nextId, product_url, product)
                  [] variant = "se" -> save_product_se(store, nextId, product_url, product)
                  [] variant = "bs" -> save_product_bs(store, nextId, product_url, product)
       IN  /\ store' = r.rows
           /\ nextId' = IF r.created THEN nextId + 1 ELSE nextId
           /\ saves' = Append(saves, [run |-> runs, variant |-> variant,
                                      page |-> page, link |-> product_url,
                                      data |-> product, exc |-> r.exc,
                                      created |-> r.created, row |-> r.row])
           /\ IF r.exc = "none"
              THEN /\ log' = log \o <<IF r.created THEN "INFO: Product created"
                                       ELSE "INFO: Product updated",
                                      "INFO: SCRIPT COMPLETED SUCCESSFULLY">>
                   /\ pc' = IF Browser(variant) THEN "finally" ELSE "done"
                   /\ raised' = raised
              ELSE /\ log' = log
                   /\ pc' = "except"
                   /\ raised' = r.exc
    /\ UNCHANGED <<variant, page, product_url, product, session, runs>>

\* except Exception as e: two error lines, then raise.
Except ==
    /\ pc = "except"
    /\ log' = log \o <<"ERROR: Script failed with error", "ERROR: SCRIPT TERMINATED WITH ERRORS">>
    /\ pc' = IF Browser(variant) THEN "finally" ELSE "done"
    /\ UNCHANGED <<variant, page, product_url, product, store, nextId, session,
                   raised, runs, saves>>

\* finally: context.close(); browser.close()  /  driver.quit()
Finally ==
    /\ pc = "finally"
    /\ session' = "closed"
    /\ log' = Append(log, "INFO: Browser closed")
    /\ pc' = "done"
    /\ UNCHANGED <<variant, page, product_url, product, store, nextId, raised,
                   runs, saves>>

Next ==
    \/ \E v \in {"pw", "se", "bs"} : StartRun(v)
    \/ SearchProduct
    \/ FetchPage
    \/ ExtractBasicInfo
    \/ ExtractProductDetails
    \/ ExtractPhotos
    \/ ExtractSpecifications
    \/ SaveProduct
    \/ Except
    \/ Finally

Spec == Init /\ [][Next]_vars

-----------------------------------------------------------------------------
(* Properties of a run of main() *)

Logged(msg) == \E i \in 1..Len(log) : log[i] = msg

\* the control is on the page and can be clicked (or has been)
ControlOk == page.button \in {"ok", "expanded"}

SavesOfRun == {i \in 1..Len(saves) : saves[i].run = runs}

find_text(l) ==
    CASE variant = "pw" -> IF l \in BasicKeys THEN safe_find_by_xpath_pw(page.nodes[l])
                           ELSE get_by_label_pw(page.nodes[l])
      [] variant = "se" -> IF l \in BasicKeys THEN safe_find_by_xpath_se(page.nodes[l])
                           ELSE get_by_label_se(page.nodes[l])
      [] variant = "bs" -> IF l \in BasicKeys THEN safe_bs(page.nodes[l])
                           ELSE get_by_label_bs(page.nodes[l])

\* C1: the text lookup primitive never raises: whatever the page yields for
\* a locator (no match, a timeout, a failing read), the lookup returns, and
\* the extractor that called it is not ended by an exception of a lookup.
C1_LookupNeverRaises ==
    /\ Logged("INFO: basic") => \A l \in BasicKeys : find_text(l).exc = "none"
    /\ (Logged("INFO: details") /\ (Browser(variant) => ControlOk))
          => \A l \in DetailKeys : find_text(l).exc = "none"
    /\ (pc = "except" /\ ControlOk)
          => ~(Logged("INFO: basic") /\ ~Logged("INFO: photos"))

\* C2: when the "show all specifications" control is absent or cannot be
\* activated, extract_product_details returns with the six attribute fields
\* None and the run goes on to the photos.
C2_ControlFailureDegrades ==
    (Browser(variant) /\ ~ControlOk /\ Logged("INFO: details"))
        => /\ pc # "except"
           /\ raised = "none"
           /\ \A k \in DetailKeys : k \in DOMAIN product /\ product[k] = None

\* C3: a run whose search yields no link (None or '') builds no record, makes
\* no update_or_create call and ends with an exception raised to the caller.
C3_MissingLinkIsFailure ==
    (pc = "done" /\ Browser(variant) /\ ~Truthy(product_url))
        => /\ product = <<>>
           /\ SavesOfRun = {}
           /\ raised # "none"

SameExtraction(i, j) ==
    /\ i < j
    /\ saves[i].link = saves[j].link
    /\ saves[i].variant = saves[j].variant
    /\ saves[i].page = saves[j].page
    /\ saves[i].exc = "none" /\ saves[j].exc = "none"

\* C5: two extractions of the same page by the same script, both upserted
\* under the same link: the second upsert returns the row the first returned
\* (same contents), with created false; the first reports created exactly
\* when the link was not stored before; the table holds one row for the link.
C5_Idempotent ==
    \A i, j \in 1..Len(saves) :
        SameExtraction(i, j)
            => /\ saves[j].row = saves[i].row
               /\ ~saves[j].created
               /\ saves[i].created
                     = ~(\E h \in 1..(i - 1) :
                            saves[h].link = saves[i].link /\ saves[h].exc = "none")
               /\ Cardinality({r \in store : r.link = saves[i].link}) = 1

\* C5 witness: a link created by one run and upserted again from the same
\* page by the next.
C5_Witness ==
    \E i, j \in 1..Len(saves) :
        SameExtraction(i, j) /\ saves[i].created /\ saves[i].row \in store

-----------------------------------------------------------------------------
(* extract_basic_info on its own: the run is at its first extractor, on a   *)
(* page whose two price nodes hold any text over the price alphabets; the   *)
(* discount node is rendered or hidden (empty element.text).                *)

RegularPriceChars == {"1", " ", NBSP, TAB}
DiscountPriceChars == {"9", " "}

AtStep(v, here, p, d) ==
    /\ variant = v
    /\ pc = here
    /\ page = p
    /\ product = d
    /\ product_url = L1
    /\ store = {}
    /\ nextId = 1
    /\ session = IF Browser(v) THEN "open" ELSE "none"
    /\ raised = "none"
    /\ log = <<"INFO: SCRIPT STARTED">>
    /\ runs = 1
    /\ saves = <<>>

InitBasic ==
    \E v \in {"pw", "se", "bs"} :
    \E r \in Texts(RegularPriceChars, MaxPriceLen) :
    \E d \in Texts(DiscountPriceChars, MaxPriceLen) :
    \E dnode \in {Found(d), Hidden(d)} :
        AtStep(v, "basic",
               [BasePage EXCEPT !.nodes["regular_price"] = Found(r),
                                !.nodes["discount_price"] = dnode],
               <<>>)

NextBasic == ExtractBasicInfo

SpecBasic == InitBasic /\ [][NextBasic]_vars

HasWhitespace(t) == \E i \in 1..Len(t) : t[i] \in Whitespace

Count(t, c) == Cardinality({i \in 1..Len(t) : t[i] = c})

PricesRead ==
    /\ pc = "details"
    /\ page.nodes["regular_price"].kind = "found"
    /\ page.nodes["discount_price"].kind = "found"

\* C6 as stated: with both price nodes present, neither price holds a
\* whitespace character of any kind.
C6_PricesNoWhitespace ==
    PricesRead => /\ ~HasWhitespace(product["regular_price"])
                  /\ ~HasWhitespace(product["discount_price"])

\* C6 amended: with both price nodes present, each price is None or a
\* non-empty text with no U+0020 space and no whitespace at either end; the
\* non-breaking spaces and tabs inside the trimmed source text are kept.
C6_PricesNoSpace ==
    PricesRead =>
        \A k \in {"regular_price", "discount_price"} :
            LET v == product[k]
                src == strip(page.nodes[k].inner)
            IN  \/ v = None /\ src = <<>>
                \/ /\ v # None /\ v # <<>>
                   /\ Count(v, " ") = 0
                   /\ v[1] \notin Whitespace /\ v[Len(v)] \notin Whitespace
                   /\ \A c \in {NBSP, TAB} : Count(v, c) = Count(src, c)

\* C6 witness: a space separator is removed, a non-breaking one is kept.
C6_Witness ==
    /\ PricesRead
    /\ page.nodes["regular_price"].inner = <<"1", NBSP, "1">>
    /\ product["regular_price"] = <<"1", NBSP, "1">>
    /\ page.nodes["discount_price"].inner = <<"9", " ", "9">>
    /\ product["discount_price"] = <<"9", "9">>

-----------------------------------------------------------------------------
(* extract_specifications on its own: the run has parsed the basic fields,  *)
(* the details and the photos of a page whose specification section is      *)
(* either one two-span row with any value text, or up to MaxRows rows of    *)
(* every span count in two category blocks (with or without a block that    *)
(* has no inner container between them).                                    *)

ValueChars == {"a", ",", " ", NBSP}

\* "64\xa0GB,  Black ,"
ExampleValue == <<"6", "4", NBSP, "G", "B", ",", " ", " ", "B", "l", "a", "c", "k", " ", ",">>
\* "64 GB, Black"
ExampleCleaned == <<"6", "4", " ", "G", "B", ",", " ", "B", "l", "a", "c", "k">>

ValueCats ==
    {<<Cat(<<Row(<<lbl, val>>)>>)>> :
        lbl \in {<<"k">>, <<" ", "k", NBSP>>},
        val \in Texts(ValueChars, MaxValueLen) \cup {ExampleValue}}

RowKinds ==
    {Row(<<>>),
     Row(<<<<"x">>>>), Row(<<<<" ", "y">>>>),
     Row(<<<<"x">>, <<"v">>>>), Row(<<<<"y">>, <<"w", ",">>>>),
     Row(<<<<"z">>, <<"v">>, <<"w">>>>),
     BadRow("timeout"), BadRow("stale")}

TableCats ==
    UNION {UNION {{<<Cat(SubSeq(rs, 1, k)), Cat(SubSeq(rs, k + 1, Len(rs)))>>,
                   <<Cat(SubSeq(rs, 1, k)), NoDiv, Cat(SubSeq(rs, k + 1, Len(rs)))>>} :
                  k \in 0..Len(rs)} :
           rs \in Texts(RowKinds, MaxRows)}

\* product as parse_product_page / parse has built it before the
\* specifications are extracted
parsed_pw(p) ==
    ("photos" :> extract_photos_pw(p).val)
        @@ extract_product_details_pw(p).val @@ extract_basic_info_pw(p).val
parsed_se(p) ==
    ("photos" :> extract_photos_se(p).val)
        @@ extract_product_details_se(p).val @@ extract_basic_info_se(p).val
parsed_bs(p) ==
    ("photos" :> extract_photos_bs(p).val)
        @@ extract_product_details_bs(p).val @@ extract_basic_info_bs(p).val

InitSpecs ==
    \E v \in {"pw", "se", "bs"} :
    \E cats \in ValueCats \cup TableCats :
        LET p == [BasePage EXCEPT !.cats = cats]
        IN  /\ v = "bs" => Static(p)
            /\ AtStep(v, "specs", IF Browser(v) THEN Expanded(p) ELSE p,
                      CASE v = "pw" -> parsed_pw(p)
                        [] v = "se" -> parsed_se(p)
                        [] v = "bs" -> parsed_bs(p))

NextSpecs == ExtractSpecifications

SpecSpecs == InitSpecs /\ [][NextSpecs]_vars

RECURSIVE AllRows(_)
AllRows(cats) ==
    IF cats = <<>> THEN <<>> ELSE Head(cats).rows \o AllRows(Tail(cats))

RECURSIVE UpToFault(_)
UpToFault(rows) ==
    IF rows = <<>> \/ Head(rows).fault # "none" THEN <<>>
    ELSE <<Head(rows)>> \o UpToFault(Tail(rows))

\* the rows of the page, in document order, that can be read before any
\* read fails
Enumerated == UpToFault(AllRows(page.cats))

Labelled(row) == Len(row.spans) \in {1, 2}
Label(row) == strip(row.spans[1])

LastWithLabel(rows, i) ==
    \A j \in (i + 1)..Len(rows) : ~(Labelled(rows[j]) /\ Label(rows[j]) = Label(rows[i]))

\* a value is parts joined by ", ": no part empty, none with whitespace at
\* either end, no non-breaking space anywhere
Joined(v) ==
    /\ Count(v, NBSP) = 0
    /\ \/ v = <<>>
       \/ LET segs == split(v, ",")
          IN  \A k \in 1..Len(segs) :
                  LET part == IF k = 1 THEN segs[k]
                              ELSE IF segs[k] = <<>> THEN <<>> ELSE Tail(segs[k])
                  IN  /\ k > 1 => (segs[k] # <<>> /\ Head(segs[k]) = " ")
                      /\ part # <<>>
                      /\ part[1] \notin Whitespace
                      /\ part[Len(part)] \notin Whitespace

\* the non-empty trimmed comma-parts of a raw value, non-breaking spaces read
\* as spaces
RECURSIVE RawParts(_)
RawParts(parts) ==
    IF parts = <<>> THEN <<>>
    ELSE (IF strip(Head(parts)) = <<>> THEN <<>> ELSE <<strip(Head(parts))>>)
         \o RawParts(Tail(parts))

\* the parts of a stored value
RECURSIVE StoredParts(_)
StoredParts(segs) ==
    IF segs = <<>> THEN <<>>
    ELSE <<strip(Head(segs))>> \o StoredParts(Tail(segs))

\* C7: once the specifications are extracted, every stored value is parts
\* joined by ", " with no empty part, no part with whitespace at either end
\* and no non-breaking space; and for a two-span row that is the last read
\* with its label, the parts are the non-empty trimmed comma-parts of the raw
\* value ("64<nbsp>GB,  Black ," is stored as "64 GB, Black").
C7_ValueCleaned ==
    pc = "save" =>
        LET specs == product["specifications"]
            rows == Enumerated
        IN  /\ \A key \in DOMAIN specs : specs[key] # None => Joined(specs[key])
            /\ \A i \in 1..Len(rows) :
                  (Len(rows[i].spans) = 2 /\ LastWithLabel(rows, i))
                      => /\ Label(rows[i]) \in DOMAIN specs
                         /\ specs[Label(rows[i])] # None
                         /\ (specs[Label(rows[i])] = <<>>
                                => RawParts(split(replace(rows[i].spans[2], NBSP, <<" ">>), ",")) = <<>>)
                         /\ (specs[Label(rows[i])] # <<>>
                                => StoredParts(split(specs[Label(rows[i])], ","))
                                     = RawParts(split(replace(rows[i].spans[2], NBSP, <<" ">>), ",")))
                         /\ (rows[i].spans[2] = ExampleValue
                                => specs[Label(rows[i])] = ExampleCleaned)

\* C7 witness: the example value has been cleaned and stored.
C7_Witness ==
    /\ pc = "save"
    /\ AllRows(page.cats) = <<Row(<<<<" ", "k", NBSP>>, ExampleValue>>)>>
    /\ product["specifications"] = (<<"k">> :> ExampleCleaned)

\* C8: once the specifications are extracted, every one-span row that was
\* read has its trimmed span text as a key of the mapping, and the key maps
\* to None unless a later row carries the same label.
C8_OneSpanRowMapsToNone ==
    pc = "save" =>
        LET specs == product["specifications"]
            rows == Enumerated
        IN  \A i \in 1..Len(rows) :
                Len(rows[i].spans) = 1
                    => /\ Label(rows[i]) \in DOMAIN specs
                       /\ LastWithLabel(rows, i) => specs[Label(rows[i])] = None

\* C8 witness: a one-span row after a two-span row with the same label, and
\* a one-span row whose text needs trimming.
C8_Witness ==
    /\ pc = "save"
    /\ AllRows(page.cats) = <<Row(<<<<"x">>, <<"v">>>>), Row(<<<<"x">>>>), Row(<<<<" ", "y">>>>)>>
    /\ product["specifications"] = (<<"x">> :> None) @@ (<<"y">> :> None)

\* C9: rows with no span or with three or more add no entry and raise
\* nothing: a page whose rows can all be read is extracted without an
\* exception, and the keys of the mapping are exactly the labels of the rows
\* read that have one or two spans.
C9_OtherSpanCountsIgnored ==
    /\ (pc # "specs" /\ NoFaults(AllRows(page.cats))) => pc = "save"
    /\ pc = "save" =>
          DOMAIN product["specifications"]
              = {Label(Enumerated[i]) :
                    i \in {j \in 1..Len(Enumerated) : Labelled(Enumerated[j])}}

\* C9 witness: a row without span and a row with three spans left no entry.
C9_Witness ==
    /\ pc = "save"
    /\ AllRows(page.cats) = <<Row(<<>>), Row(<<<<"z">>, <<"v">>, <<"w">>>>), Row(<<<<"x">>>>)>>
    /\ DOMAIN product["specifications"] = {<<"x">>}

\* C10: when a read fails anywhere in the specification section, the
\* extractor returns the empty mapping and the run goes on.
C10_ErrorYieldsEmptyMapping ==
    (pc # "specs" /\ ~NoFaults(AllRows(page.cats)))
        => /\ pc = "save"
           /\ product["specifications"] = <<>>

-----------------------------------------------------------------------------
(* extract_photos on its own: the image nodes of the page are drawn from    *)
(* every sequence of up to MaxImgs nodes whose src is missing, empty or a   *)
(* url, or whose read fails.                                                *)

MaxImgs == 3

ImgKinds ==
    {Img(None), Img(<<>>), Img(<<"a">>), Img(<<"b">>),
     [src |-> <<"a">>, fault |-> "timeout"],
     [src |-> <<"b">>, fault |-> "stale"]}

ImgLists == UNION {[1..k -> ImgKinds] : k \in 0..MaxImgs}

InitPhotos ==
    \E v \in {"pw", "se", "bs"} :
    \E imgs \in ImgLists :
        LET p == [BasePage EXCEPT !.imgs = imgs]
        IN  /\ v = "bs" => Static(p)
            /\ AtStep(v, "photos", IF Browser(v) THEN Expanded(p) ELSE p,
                      CASE v = "pw" -> extract_product_details_pw(p).val
                                           @@ extract_basic_info_pw(p).val
                        [] v = "se" -> extract_product_details_se(p).val
                                           @@ extract_basic_info_se(p).val
                        [] v = "bs" -> extract_product_details_bs(p).val
                                           @@ extract_basic_info_bs(p).val)

NextPhotos == ExtractPhotos

SpecPhotos == InitPhotos /\ [][NextPhotos]_vars

\* the src values, in document order, of the nodes whose src is present and
\* non-empty
PresentSrc(imgs) ==
    LET kept == SelectSeq(imgs, LAMBDA i : i.src # None /\ i.src # <<>>)
    IN  [k \in 1..Len(kept) |-> kept[k].src]

\* C11: extract_photos returns exactly the present, non-empty src values of
\* the image nodes it reads, in document order, with no entry for a node
\* whose src is missing or empty; a page whose image nodes can all be read
\* is extracted without an exception, and a page with no image node gives
\* the empty list.
C11_PhotosAreSources ==
    /\ (pc # "photos" /\ NoFaults(page.imgs)) => pc = "specs"
    /\ pc = "specs" => product["photos"] = PresentSrc(UpToFault(page.imgs))
    /\ (pc # "photos" /\ page.imgs = <<>>)
          => (pc = "specs" /\ product["photos"] = <<>> /\ product["photos"] # None)

\* C11 witness: a node without src and a node with an empty src between two
\* urls left no entry, and the urls are in document order.
C11_Witness ==
    /\ pc = "specs"
    /\ page.imgs = <<Img(<<"b">>), Img(None), Img(<<"a">>)>>
    /\ product["photos"] = <<<<"b">>, <<"a">>>>

-----------------------------------------------------------------------------
\* C12: whenever main of a browser script has returned or propagated an
\* error, the session it acquired has been released (close / quit was
\* executed), whether the run succeeded or a step after the acquisition
\* raised.
C12_SessionReleased ==
    (pc = "done" /\ Browser(variant)) => session = "closed"

-----------------------------------------------------------------------------
\* the errors raised by the persistence call itself
SaveErrors == {"IntegrityError", "KeyError"}

-----------------------------------------------------------------------------
\* the place of a step in the pipeline
Rank(at) ==
    CASE at \in {"idle", "search", "fetch"} -> 0
      [] at = "basic" -> 1
      [] at = "details" -> 2
      [] at = "photos" -> 3
      [] at = "specs" -> 4
      [] at = "save" -> 5
      [] at = "except" -> 6
      [] at = "finally" -> 7
      [] at = "done" -> 8

\* Within one run the steps are taken in the order fetch, basic, attributes,
\* photos, specifications, save: no step is taken twice, none is skipped on
\* the way to the save, none is retried after an error.
InOrder ==
    runs' = runs
        => /\ Rank(pc') > Rank(pc)
           /\ Rank(pc') <= 5 => Rank(pc') = Rank(pc) + 1

\* C14 as claimed: the steps of a run are taken once each in the fixed
\* order, and the specification control that can be clicked has been
\* clicked when the basic fields are read.
C14_ControlBeforeBasic ==
    [][/\ InOrder
       /\ (pc = "basic" /\ Browser(variant) /\ ControlOk)
             => page.button = "expanded"]_vars

\* C14: the steps of a run are taken once each in the order fetch,
\* extract-basic, expand-specs-control, extract-attributes, extract-photos,
\* extract-specifications, assemble: the control is clicked by
\* extract_product_details, after the basic fields have been read and before
\* the attribute fields are, and by no other step.
C14_ControlAfterBasic ==
    [][/\ InOrder
       /\ page'.button = "expanded"
             <=> \/ page.button = "expanded" /\ runs' = runs
                 \/ /\ Browser(variant) /\ pc = "details" /\ page.button = "ok"
                    /\ BasicKeys \subseteq DOMAIN product
                    /\ ~(DetailKeys \subseteq DOMAIN product)]_vars

\* C14 witness: a Playwright run has gone through every step in order, the
\* control clicked on the way.
C14_Witness ==
    /\ pc = "done"
    /\ variant = "pw"
    /\ page.button = "expanded"
    /\ log = <<"INFO: SCRIPT STARTED", "INFO: basic", "INFO: details",
               "INFO: photos", "INFO: specs", "INFO: Product created",
               "INFO: SCRIPT COMPLETED SUCCESSFULLY", "INFO: Browser closed">>

-----------------------------------------------------------------------------
(* The lookups on their own: the title node (safe_find_by_xpath / safe) and *)
(* the vendor node (get_by_label) are drawn from the nodes whose text is    *)
(* any string of up to MaxTextLen characters, whitespace included.          *)

MaxTextLen == 2

TextChars == {"T", " ", TAB}

LookupNodes ==
    {Absent, Stale}
        \cup {Found(t) : t \in Texts(TextChars, MaxTextLen)}
        \cup {Hidden(t) : t \in Texts(TextChars, MaxTextLen)}

InitLookup ==
    \E v \in {"pw", "se", "bs"} :
    \E n \in LookupNodes :
        LET p == [BasePage EXCEPT !.nodes["title"] = n, !.nodes["vendor"] = n]
        IN  /\ v = "bs" => Static(p)
            /\ AtStep(v, "basic", p, <<>>)

NextLookup == ExtractBasicInfo \/ ExtractProductDetails

SpecLookup == InitLookup /\ [][NextLookup]_vars

\* None, or a non-empty string without whitespace at either end
AbsentOrTrimmed(v) ==
    \/ v = None
    \/ /\ v # <<>>
       /\ v[1] \notin Whitespace
       /\ v[Len(v)] \notin Whitespace

\* C15: what a lookup returned is None or a non-empty string with no
\* whitespace at either end; a node whose text is empty or whitespace only
\* gives None, never ''.
C15_LookupAbsentOrNonEmpty ==
    /\ "title" \in DOMAIN product
          => /\ AbsentOrTrimmed(product["title"])
             /\ (page.nodes["title"].kind = "found"
                   /\ strip(page.nodes["title"].text) = <<>>
                   /\ strip(page.nodes["title"].inner) = <<>>)
                    => product["title"] = None
    /\ "vendor" \in DOMAIN product
          => /\ AbsentOrTrimmed(product["vendor"])
             /\ (page.nodes["vendor"].kind = "found"
                   /\ strip(page.nodes["vendor"].text) = <<>>
                   /\ strip(page.nodes["vendor"].inner) = <<>>)
                    => product["vendor"] = None

-----------------------------------------------------------------------------
(* extract_specifications on tables with nesting: one category block whose  *)
(* rows are drawn from plain rows and rows that hold a nested div with      *)
(* spans of its own.                                                        *)

NestedRowKinds ==
    {Row(<<<<"x">>>>),
     Row(<<<<"x">>, <<"v">>>>),
     Nest(<<<<"y">>, <<"w">>>>, <<Row(<<<<"n">>>>)>>),
     Nest(<<>>, <<Row(<<<<"n">>, <<"v">>>>)>>),
     Nest(<<<<"y">>>>, <<Row(<<<<"x">>, <<"w">>>>)>>),
     Nest(<<<<"z">>>>, <<Row(<<>>)>>)}

NestedCats ==
    {<<Cat(rows)>> : rows \in UNION {[1..k -> NestedRowKinds] : k \in 0..MaxRows}}

InitNested ==
    \E v \in {"pw", "se", "bs"} :
    \E cats \in NestedCats :
        LET p == [BasePage EXCEPT !.cats = cats]
        IN  AtStep(v, "specs", IF Browser(v) THEN Expanded(p) ELSE p,
                   CASE v = "pw" -> parsed_pw(p)
                     [] v = "se" -> parsed_se(p)
                     [] v = "bs" -> parsed_bs(p))

NextNested == ExtractSpecifications

SpecNested == InitNested /\ [][NextNested]_vars

\* C16: only the direct children of a block's container are rows: the keys
\* of the mapping are the labels of those rows, each with the value of the
\* last of them that carries the label, and a div nested inside a row adds
\* or changes no entry, in all three scripts.
C16_RowsNotRecursive ==
    pc = "save" =>
        LET specs == product["specifications"]
            rows == AllRows(page.cats)
        IN  /\ DOMAIN specs
                  = {Label(rows[i]) : i \in {j \in 1..Len(rows) : Labelled(rows[j])}}
            /\ \A i \in 1..Len(rows) :
                  (Labelled(rows[i]) /\ LastWithLabel(rows, i))
                      => specs[Label(rows[i])]
                             = IF Len(rows[i].spans) = 1 THEN None
                               ELSE cleaned_value(strip(rows[i].spans[2]))

-----------------------------------------------------------------------------
\* the index of the last row that carries the label of row i
LastIndex(rows, i) ==
    CHOOSE j \in i..Len(rows) :
        /\ Labelled(rows[j])
        /\ Label(rows[j]) = Label(rows[i])
        /\ LastWithLabel(rows, j)

\* the value a row gives its label
Derived(row) ==
    IF Len(row.spans) = 1 THEN None ELSE cleaned_value(strip(row.spans[2]))

\* C17: when several rows, of the same or of different category blocks,
\* carry the same label, the mapping has one entry for the label and its
\* value is the one of the last such row in document order; a last row with
\* a single span leaves None where an earlier row had stored a value.
C17_LastRowWins ==
    pc = "save" =>
        LET specs == product["specifications"]
            rows == Enumerated
        IN  \A i \in 1..Len(rows) :
                Labelled(rows[i])
                    => /\ Label(rows[i]) \in DOMAIN specs
                       /\ specs[Label(rows[i])] = Derived(rows[LastIndex(rows, i)])

\* C17 witness: the label x has a value in the first block and a single
\* span in a later block: one entry, None; the label y is carried once.
C17_Witness ==
    /\ pc = "save"
    /\ page.cats = <<Cat(<<Row(<<<<"x">>, <<"v">>>>), Row(<<<<"y">>, <<"w", ",">>>>)>>),
                     NoDiv,
                     Cat(<<Row(<<<<"x">>>>)>>)>>
    /\ product["specifications"] = (<<"x">> :> None) @@ (<<"y">> :> <<"w">>)

-----------------------------------------------------------------------------
\* C18: whatever save_product calls have been made, the table holds at most
\* one row per link and no two rows with the same product_code other than
\* None; and a save_product call for a link the table does not hold, with a
\* product_code that a row of another link holds, raises IntegrityError to
\* its caller and leaves the table as it was.
C18_UniqueLinkAndCode ==
    [][/\ \A r, q \in store' : r.link = q.link => r = q
       /\ \A r, q \in store' :
             (r.fields["product_code"] # None
                 /\ r.fields["product_code"] = q.fields["product_code"]) => r = q
       /\ (/\ pc = "save"
           /\ ~\E r \in store : r.link = product_url
           /\ product["product_code"] # None
           /\ \E r \in store : r.fields["product_code"] = product["product_code"])
             => /\ store' = store
                /\ raised' = "IntegrityError"
                /\ pc' = "except"]_vars

\* C18 witness: the table holds a row for one link, and the save under
\* another link with the same product_code has just failed.
C18_Witness ==
    /\ pc = "except"
    /\ raised = "IntegrityError"
    /\ Len(saves) = 2
    /\ saves[2].exc = "IntegrityError"
    /\ store = {saves[1].row}
    /\ saves[1].row.link # product_url
    /\ saves[1].row.fields["product_code"] = product["product_code"]
    /\ product["product_code"] # None

====
